---- MODULE Spec2Model ----
(***************************************************************************)
(* Model of campbellsoup/import_command.py: the import of a directory of   *)
(* archive files (plain text and LaTeX-writer question groups, loose       *)
(* figures) into the entity graph of campbellsoup.models within one        *)
(* SQLAlchemy session.                                                     *)
(*                                                                         *)
(* Python objects live in `heap` (a sequence; an object's identity is its  *)
(* index, 0 stands for None).  The session is the pair `staged` (objects   *)
(* handed to session.add and not yet committed) and `store` (committed     *)
(* rows).  Each function of the source is an operator that takes the       *)
(* world `w` (heap, session, caches, log) and returns the world after the  *)
(* call, its return value in w.ret and a raised exception in w.raised.     *)
(* One iteration of the loop of import_groups is one action.               *)
(***************************************************************************)
EXTENDS Integers, Sequences, FiniteSets, TLC

VARIABLES
    heap,      \* every object constructed so far, by identity
    staged,    \* session: pending objects (session.add), dropped by rollback
    store,     \* session: committed rows
    cache,     \* the five module-level caches, name -> object
    log,       \* records logged at warning or error level by this invocation
    pc,        \* "idle" (no invocation running) or "importing" (in the loop)
    test,      \* import_test: the Test under construction
    order,     \* import_groups: order of the next group
    blocks,    \* import_groups: blocks that await figures
    figures,   \* import_groups: figures imported since the last text file
    group,     \* import_groups: the last imported group (None before the first)
    runs,      \* number of invocations of import_test started in this model run
    outcome,   \* how the last invocation ended: "none", "committed", "rolledback"
    added,     \* history: objects handed to session.add by this invocation
    calls,     \* history: the get_category calls of this invocation
    hist,      \* history: the text files imported by this invocation
    binds,     \* history: the bind_figures calls of this invocation
    ntexts,    \* number of text files read so far, over all invocations
    nfigures,  \* number of figure files read so far, over all invocations
    current_user,  \* api: per client, the logged-in account (None: anonymous)
    request,       \* api: the last request
    response       \* api: the response to it

vars == <<heap, staged, store, cache, log, pc, test, order, blocks, figures,
          group, runs, outcome, added, calls, hist, binds, ntexts, nfigures,
          current_user, request, response>>

\* The state of the import command and the state of the api.
import_vars ==
    <<heap, staged, store, cache, log, pc, test, order, blocks, figures,
      group, runs, outcome, added, calls, hist, binds, ntexts, nfigures>>

api_vars == <<current_user, request, response>>

(***************************************************************************)
(* Bounds of the model.                                                    *)
(***************************************************************************)
MaxRuns == 2       \* invocations of import_test per behaviour
MaxTexts == 3      \* text files per behaviour
MaxFigures == 2    \* figure files per behaviour
MaxBlocks == 2     \* blocks of a plain text file
MaxSubtrees == 2   \* blocks of a LaTeX-writer file
MaxImages == 2     \* images declared by a plain text file
MaxPoint == 2      \* largest per-question points value

None == 0

UNKNOWN_AUTHOR_NAME == "unattributed"
UNKNOWN_AUTHOR_FULL_NAME == "Unidentified Author"
IMPORTED_STATUS_NAME == "imported"

EmptyCaches ==
    [person |-> << >>, format |-> << >>, question_kind |-> << >>,
     figure_kind |-> << >>, status |-> << >>]

(***************************************************************************)
(* The world threaded through the functions of the source.                 *)
(***************************************************************************)
World ==
    [heap |-> heap, staged |-> staged, added |-> added, cache |-> cache,
     log |-> log, calls |-> calls, binds |-> binds, raised |-> "", ret |-> None]

\* Sequencing: F applied to the value of v.  (The value is computed once,
\* where a LET definition is computed again at each of its uses.)
Let(v, F(_)) == CHOOSE r \in {F(x) : x \in {v}} : TRUE

\* Sequencing of calls that may raise: F applied to the world after a call,
\* unless the call raised.
Then(w, F(_)) ==
    CHOOSE r \in {IF x.raised # "" THEN x ELSE F(x) : x \in {w}} : TRUE

Raise(w, exc) == [w EXCEPT !.raised = exc]

Return(w, v) == [w EXCEPT !.ret = v]

\* Constructing an object: it gets the next identity.
New(w, obj) == [w EXCEPT !.heap = Append(@, obj), !.ret = Len(w.heap) + 1]

\* The objects an object refers to through its relationships.
Refs(obj) ==
    CASE obj.cls = "TestGroupBinding" -> {obj.test, obj.group}
      [] obj.cls = "Group" -> {obj.revision, obj.format, obj.network}
      [] obj.cls = "GroupHistory" -> {obj.parent, obj.child}
      [] obj.cls = "Revision" -> {obj.author}
      [] obj.cls = "Question" ->
            {obj.revision, obj.status, obj.network, obj.kind} \ {None}
      [] obj.cls = "Introduction" -> {obj.revision}
      [] obj.cls = "GroupQuestionBinding" -> {obj.group, obj.question}
      [] obj.cls = "GroupIntroductionBinding" -> {obj.group, obj.introduction}
      [] obj.cls = "Figure" -> {obj.revision, obj.kind, obj.tree}
      [] obj.cls \in {"QuestionFigureBinding", "IntroductionFigureBinding"} ->
            {obj.block, obj.figure}
      [] OTHER -> {}

\* The save-update cascade: what becomes pending with the objects of S.
RECURSIVE Cascade(_, _)
Cascade(h, S) ==
    Let(S \cup UNION {Refs(h[i]) : i \in S}, LAMBDA T :
        IF T = S THEN S ELSE Cascade(h, T))

\* session.add: the object and what it refers to become pending, unless
\* they are committed rows.
session_add(w, id) ==
    Let(Cascade(w.heap, {id}) \ store, LAMBDA new :
        [w EXCEPT !.staged = @ \cup new, !.added = @ \cup new])

\* logger.warning / logger.error
Log(w, entry) == [w EXCEPT !.log = Append(@, entry)]

\* What a query of the session sees: the committed rows and, flushed before
\* the query runs (autoflush), the pending ones.
Visible(w) == store \cup Cascade(w.heap, w.staged)

\* str.strip on the names the model draws.
Strip(name) == IF name = " ann " THEN "ann" ELSE name

(***************************************************************************)
(* get_category                                                            *)
(***************************************************************************)
\* History: the call that returns w.ret, whether the cache holds the
\* instance and whether the session does.
Observe(w, c, name) ==
    [w EXCEPT !.calls = @ \cup
        {[cache |-> c, name |-> name, inst |-> w.ret,
          cached |-> name \in DOMAIN w.cache[c] /\ w.cache[c][name] = w.ret,
          insession |-> w.ret \in Visible(w)]}]

\* session.query(model).filter_by(name=name)
CategoryQuery(w, model, name) ==
    {i \in Visible(w) : w.heap[i].cls = model /\ w.heap[i].name = name}

\* cache[name] = instance; session.add(instance)
Register(w, c, name, instance) ==
    session_add([w EXCEPT !.cache[c] = (name :> instance) @@ @], instance)

get_category(w, name, c, model) ==
    IF name \in DOMAIN w.cache[c]
    THEN Observe(Return(w, w.cache[c][name]), c, name)
    ELSE Let(CategoryQuery(w, model, name), LAMBDA rows :
         IF Cardinality(rows) > 1
         THEN Raise(w, "MultipleResultsFound")
         ELSE Let(IF rows # {} THEN Return(w, CHOOSE i \in rows : TRUE)
                  ELSE New(w, [cls |-> model, name |-> name]), LAMBDA w1 :
              Let(Register(w1, c, name, w1.ret), LAMBDA w2 :
                  Observe(w2, c, name))))

get_import_status(w) ==
    get_category(w, IMPORTED_STATUS_NAME, "status", "QuestionStatus")

(***************************************************************************)
(* get_person, make_revision                                               *)
(***************************************************************************)
\* session.query(m.Person).filter_by(short_name=short_name)
PersonQuery(w, name) ==
    {i \in Visible(w) : w.heap[i].cls = "Person" /\ w.heap[i].short_name = name}

\* get_person that neither looks up nor remembers: a new Person per call.
get_person_always_new(w, short_name, full_name) ==
    Let(New(w, [cls |-> "Person", short_name |-> Strip(short_name),
                full_name |-> IF full_name = "" THEN Strip(short_name)
                              ELSE full_name]), LAMBDA w1 :
        Return(session_add(w1, w1.ret), w1.ret))

\* full_name = "" stands for a call without the full_name keyword.
get_person(w, short_name, full_name) ==
    LET name == Strip(short_name)
    IN  IF name \in DOMAIN w.cache.person
        THEN Return(w, w.cache.person[name])
        ELSE Let(PersonQuery(w, name), LAMBDA rows :
             IF Cardinality(rows) > 1
             THEN Raise(w, "MultipleResultsFound")
             ELSE Let(IF rows # {} THEN Return(w, CHOOSE i \in rows : TRUE)
                      ELSE New(w, [cls |-> "Person", short_name |-> name,
                                   full_name |-> IF full_name = "" THEN name
                                                 ELSE full_name]), LAMBDA w1 :
                  Return(Register(w1, "person", name, w1.ret), w1.ret)))

\* [get_person(name, session) for name in authors]; w.ret is the list.
RECURSIVE get_persons(_, _, _)
get_persons(w, names, objs) ==
    IF names = << >> THEN Return(w, objs)
    ELSE Then(get_person(w, Head(names), ""), LAMBDA w1 :
         Let(Append(objs, w1.ret), LAMBDA objs1 :
             get_persons(w1, Tail(names), objs1)))

make_revision(w, authors, group_order, test_title) ==
    Then(IF Len(authors) = 0
         THEN Then(get_person(w, UNKNOWN_AUTHOR_NAME, UNKNOWN_AUTHOR_FULL_NAME),
                   LAMBDA u : Return(u, <<u.ret>>))
         ELSE get_persons(w, authors, << >>), LAMBDA w1 :
    Let(w1.ret, LAMBDA author_objs :
    Let(New(w1, [cls |-> "Revision", author |-> author_objs[1],
                 commit_msg |-> [group |-> group_order, test |-> test_title,
                                 others |-> IF Len(author_objs) > 1
                                            THEN Tail(authors) ELSE << >>]]),
        LAMBDA w2 : session_add(w2, w2.ret))))

(***************************************************************************)
(* Parse trees.  A text file is the record                                 *)
(*   authors        the declared authors, in order                         *)
(*   reuse          the reuse declaration: its length n, title and order   *)
(*   dialect        "plain" (contentPlain), "lw" (contentLW), "none", or   *)
(*                  "unparsable" (the parser raises)                       *)
(*   blocks         plain: the number of blocks of contentPlain            *)
(*   questionCount  plain: << >> or <<k>>                                  *)
(*   points         plain: the points declaration: its length len, its     *)
(*                  first element and, when len = 2, the list per          *)
(*   images         plain: the number of declared images                   *)
(*   subtrees       lw: per block, the keys of its subtree and its points  *)
(* Texts, titles, answers and notes are not modelled; a block's text is    *)
(* its position in the file.                                               *)
(***************************************************************************)
maybe(seq, i) == IF i + 1 \in DOMAIN seq THEN seq[i + 1] ELSE None

\* Python's `a or b` on the integers and None.
PyOr(a, b) == IF a = None \/ a = 0 THEN b ELSE a

RECURSIVE sum(_)
sum(seq) == IF seq = << >> THEN 0 ELSE Head(seq) + sum(Tail(seq))

Max(a, b) == IF a < b THEN b ELSE a

First(S) == CHOOSE x \in S : \A y \in S : x <= y

(***************************************************************************)
(* make_group                                                              *)
(***************************************************************************)
\* session.query(m.Group).join('test_bindings', 'test').filter(...)
ReuseQuery(h, visible, parent_title, parent_order) ==
    {g \in visible :
        /\ h[g].cls = "Group"
        /\ \E b \in visible :
              /\ h[b].cls = "TestGroupBinding"
              /\ h[b].group = g
              /\ h[b].order = parent_order
              /\ h[b].test \in visible
              /\ h[h[b].test].title = parent_title}

\* The lookup with .first() in place of .one(): of several groups, any.
Lineage_first(w, reuse) ==
    IF reuse.n = 2
    THEN Let(ReuseQuery(w.heap, Visible(w), reuse.title, reuse.order),
             LAMBDA parents :
             IF Cardinality(parents) = 0 THEN Raise(w, "NoResultFound")
             ELSE Let(First(parents), LAMBDA parent :
                      Return(w, <<parent, w.heap[parent].network>>)))
    ELSE Let(New(w, [cls |-> "GroupNetwork"]), LAMBDA w1 :
             Return(w1, <<None, w1.ret>>))

\* The parent and the network of a new group: w.ret is <<parent, network>>.
Lineage(w, reuse) ==
    IF reuse.n = 2
    THEN Let(ReuseQuery(w.heap, Visible(w), reuse.title, reuse.order),
             LAMBDA parents :
             IF Cardinality(parents) = 0 THEN Raise(w, "NoResultFound")
             ELSE IF Cardinality(parents) > 1
             THEN Raise(w, "MultipleResultsFound")
             ELSE Let(CHOOSE g \in parents : TRUE, LAMBDA parent :
                      Return(w, <<parent, w.heap[parent].network>>)))
    ELSE Let(New(w, [cls |-> "GroupNetwork"]), LAMBDA w1 :
             Return(w1, <<None, w1.ret>>))

make_group(w, revision, reuse, format_name) ==
    Then(Lineage(w, reuse), LAMBDA w1 :
    Let(w1.ret[1], LAMBDA parent :
    Let(w1.ret[2], LAMBDA network :
    Then(get_category(w1, format_name, "format", "Format"), LAMBDA w2 :
    Let(New(w2, [cls |-> "Group", revision |-> revision, format |-> w2.ret,
                 network |-> network]), LAMBDA w3 :
    Let(w3.ret, LAMBDA grp :
    Let(IF parent # None
        THEN Let(New(w3, [cls |-> "GroupHistory", parent |-> parent,
                          child |-> grp]), LAMBDA h : session_add(h, h.ret))
        ELSE w3, LAMBDA w4 :
    Return(session_add(w4, grp), grp))))))))

(***************************************************************************)
(* import_plain, import_plain_blocks, plain_attach_global_points           *)
(***************************************************************************)
\* A block before bind_figures has touched it.
Block(cls, revision, text) ==
    [cls |-> cls, revision |-> revision, text |-> text, figure_counter |-> -1,
     has_filenames |-> FALSE, figure_filenames |-> << >>]

\* [m.Introduction(...) for text in plain_blocks[:intro_count]]
RECURSIVE plain_introductions(_, _, _, _)
plain_introductions(w, texts, revision, intros) ==
    IF texts = << >> THEN Return(w, intros)
    ELSE Let(New(w, Block("Introduction", revision, Head(texts))), LAMBDA w1 :
         Let(Append(intros, w1.ret), LAMBDA intros1 :
             plain_introductions(w1, Tail(texts), revision, intros1)))

\* m.Question(revision=..., status=get_import_status(session),
\*            network=m.QuestionNetwork(), ...): no kind is given.
new_question(w, revision, text) ==
    Then(get_import_status(w), LAMBDA w1 :
    Let(New(w1, [cls |-> "QuestionNetwork"]), LAMBDA w2 :
        New(w2, [status |-> w1.ret, network |-> w2.ret, kind |-> None]
                @@ Block("Question", revision, text))))

\* [m.Question(...) for text in plain_blocks[intro_count:]]
RECURSIVE plain_questions(_, _, _, _)
plain_questions(w, texts, revision, questions) ==
    IF texts = << >> THEN Return(w, questions)
    ELSE Then(new_question(w, revision, Head(texts)), LAMBDA w1 :
         Let(Append(questions, w1.ret), LAMBDA questions1 :
             plain_questions(w1, Tail(texts), revision, questions1)))

\* The bindings of `members` to `grp`, with orders index, index + 1, ...
RECURSIVE new_bindings(_, _, _, _, _, _)
new_bindings(w, cls, grp, members, index, bindings) ==
    IF members = << >> THEN Return(w, bindings)
    ELSE Let(New(w, IF cls = "GroupQuestionBinding"
                    THEN [cls |-> cls, group |-> grp, question |-> Head(members),
                          order |-> index, weight |-> None]
                    ELSE [cls |-> cls, group |-> grp,
                          introduction |-> Head(members), order |-> index]),
             LAMBDA w1 :
         Let(Append(bindings, w1.ret), LAMBDA bindings1 :
             new_bindings(w1, cls, grp, Tail(members), index + 1, bindings1)))

\* session.add_all
RECURSIVE session_add_all(_, _)
session_add_all(w, ids) ==
    IF ids = << >> THEN w
    ELSE Let(session_add(w, Head(ids)), LAMBDA w1 :
             session_add_all(w1, Tail(ids)))

import_plain_blocks(w, plain_blocks, intro_count, grp) ==
    Let(w.heap[grp].revision, LAMBDA revision :
    Let(plain_introductions(w, SubSeq(plain_blocks, 1, intro_count), revision,
                            << >>), LAMBDA w1 :
    Let(w1.ret, LAMBDA intros :
    Let(new_bindings(w1, "GroupIntroductionBinding", grp, intros, 1, << >>),
        LAMBDA w2 :
    Let(session_add_all(w2, w2.ret), LAMBDA w3 :
    Then(plain_questions(w3, SubSeq(plain_blocks, intro_count + 1,
                                    Len(plain_blocks)), revision, << >>),
         LAMBDA w4 :
    Let(w4.ret, LAMBDA questions :
    Let(new_bindings(w4, "GroupQuestionBinding", grp, questions,
                     intro_count + 1, << >>), LAMBDA w5 :
    Let(w5.ret, LAMBDA question_bindings :
    Let(session_add_all(w5, question_bindings), LAMBDA w6 :
        Return(w6, [intros |-> intros, questions |-> questions,
                    question_bindings |-> question_bindings])))))))))))

\* for question_binding, points in zip(question_bindings, points[1])
RECURSIVE assign_weights(_, _, _)
assign_weights(h, question_bindings, per) ==
    IF question_bindings = << >> \/ per = << >> THEN h
    ELSE Let([h EXCEPT ![Head(question_bindings)].weight = Head(per)], LAMBDA h1 :
             assign_weights(h1, Tail(question_bindings), Tail(per)))

\* The warning of a sum mismatch: its message is ' + '.join(points[1]), and
\* str.join over the numbers that sum() has just added raises TypeError.
warn_points_sum(w, points) == Raise(w, "TypeError")

plain_attach_global_points(w, points, question_bindings) ==
    IF points.len = 2
    THEN Then(IF points.first # sum(points.per)
              THEN warn_points_sum(w, points) ELSE w, LAMBDA w1 :
         Let(IF Len(points.per) # Len(question_bindings)
             THEN Log(w1, [level |-> "error", event |-> "points mismatch",
                           a |-> Len(points.per), b |-> Len(question_bindings)])
             ELSE w1, LAMBDA w2 :
             [w2 EXCEPT !.heap =
                    assign_weights(@, question_bindings, points.per)]))
    ELSE IF question_bindings = << >> THEN Raise(w, "IndexError")
    ELSE [w EXCEPT !.heap[question_bindings[1]].weight = points.first]

\* all_blocks[0:1] * len(images)
Repeat(seq, n) == [i \in 1..(Len(seq) * n) |-> seq[1]]

\* The count without the comparison that logs the error.
count_introductions_unchecked(w, tree, block_count) ==
    Let(PyOr(maybe(tree.questionCount, 0), block_count), LAMBDA question_count :
        Return(w, Max(block_count - question_count, 0)))

\* The number of leading blocks that become introductions; ret is the count.
count_introductions(w, tree, block_count) ==
    Let(PyOr(maybe(tree.questionCount, 0), block_count), LAMBDA question_count :
        IF block_count < question_count
        THEN Return(Log(w, [level |-> "error", event |-> "questions claimed",
                            a |-> question_count, b |-> block_count]), 0)
        ELSE IF block_count > question_count
        THEN Return(w, block_count - question_count)
        ELSE Return(w, 0))

import_plain(w, tree, revision) ==
    Then(make_group(w, revision, tree.reuse, "text/plain"), LAMBDA w1 :
    Let(w1.ret, LAMBDA grp :
    Let([i \in 1..tree.blocks |-> i], LAMBDA plain_blocks :
    Let(count_introductions(w1, tree, Len(plain_blocks)), LAMBDA w2 :
    Then(import_plain_blocks(w2, plain_blocks, w2.ret, grp), LAMBDA w3 :
    Let(w3.ret, LAMBDA parts :
    \* questions[0].answer = ...
    Then(IF parts.questions = << >> THEN Raise(w3, "IndexError") ELSE w3,
         LAMBDA w4 :
    Then(IF tree.points.len > 0
         THEN plain_attach_global_points(w4, tree.points,
                                         parts.question_bindings)
         ELSE w4, LAMBDA w5 :
    Return(w5, [group |-> grp,
                blocks |-> IF tree.images > 0
                           THEN Repeat(SubSeq(parts.intros \o parts.questions,
                                              1, 1), tree.images)
                           ELSE << >>])))))))))

(***************************************************************************)
(* import_latex_writer                                                     *)
(***************************************************************************)
\* The name of the kind of a LaTeX-writer question, "" if the final
\* assertion ('answerblock' in tree) fails.
question_kind_name(tree) ==
    IF "complete_text" \in tree.keys THEN "complete_text"
    ELSE IF "answerfigure" \in tree.keys THEN "answerfigure"
    ELSE IF "drawbox" \in tree.keys THEN "drawbox"
    ELSE IF "type" \in tree.keys THEN tree.type
    ELSE IF "answerblock" \in tree.keys THEN "mc"
    ELSE ""

import_latex_writer_question(w, tree, revision, text) ==
    Then(new_question(w, revision, text), LAMBDA w1 :
    Let(w1.ret, LAMBDA question :
    Let(question_kind_name(tree), LAMBDA kind_name :
    Then(IF kind_name = "" THEN Raise(w1, "AssertionError")
         ELSE get_category(w1, kind_name, "question_kind", "QuestionKind"),
         LAMBDA w2 :
    Let([w2 EXCEPT !.heap[question].kind = w2.ret], LAMBDA w3 :
        Return(session_add(w3, question), question))))))

import_latex_writer_introduction(w, tree, revision, text) ==
    Let(New(w, Block("Introduction", revision, text)), LAMBDA w1 :
        Return(session_add(w1, w1.ret), w1.ret))

\* A file name declared by the block at `index` under the key `fig`.
DeclaredName(index, fig) == [declared |-> TRUE, block |-> index, key |-> fig]

\* [subtree[fig][0] for fig in ('figure', 'answerfigure') if fig in subtree]
FigureFilenames(tree, index) ==
    (IF "figure" \in tree.keys THEN <<DeclaredName(index, "figure")>>
     ELSE << >>)
    \o (IF "answerfigure" \in tree.keys
        THEN <<DeclaredName(index, "answerfigure")>> ELSE << >>)

\* One block and its binding to the group; ret is the block.
latex_writer_block(w, subtree, index, grp, revision) ==
    IF "question" \in subtree.keys
    THEN Then(import_latex_writer_question(w, subtree, revision, index),
              LAMBDA w1 :
         Let(w1.ret, LAMBDA block :
         Let(New(w1, [cls |-> "GroupQuestionBinding", group |-> grp,
                      question |-> block, order |-> index,
                      weight |-> maybe(subtree.points, 0)]), LAMBDA w2 :
             Return(session_add(w2, w2.ret), block))))
    ELSE Let(import_latex_writer_introduction(w, subtree, revision, index),
             LAMBDA w1 :
         Let(w1.ret, LAMBDA block :
         Let(New(w1, [cls |-> "GroupIntroductionBinding", group |-> grp,
                      introduction |-> block, order |-> index]), LAMBDA w2 :
             Return(session_add(w2, w2.ret), block))))

\* The loop over enumerate(zip(subtrees, sources), start=1), from `index` on.
RECURSIVE latex_writer_blocks(_, _, _, _, _, _)
latex_writer_blocks(w, subtrees, index, grp, revision, figure_blocks) ==
    IF index > Len(subtrees) THEN Return(w, figure_blocks)
    ELSE Let(subtrees[index], LAMBDA subtree :
         IF subtree.keys \cap {"question", "intro", "figure"} = {}
         THEN IF index # 1 \/ subtree.lines # 1
              THEN Raise(w, "AssertionError")
              ELSE latex_writer_blocks(w, subtrees, index + 1, grp, revision,
                                       figure_blocks)
         ELSE Then(latex_writer_block(w, subtree, index, grp, revision),
                   LAMBDA w1 :
              Let(w1.ret, LAMBDA block :
              Let(FigureFilenames(subtree, index), LAMBDA names :
              Let([w1 EXCEPT !.heap[block].has_filenames = TRUE,
                             !.heap[block].figure_filenames = names],
                  LAMBDA w2 :
              Let(figure_blocks \o [i \in 1..Len(names) |-> block],
                  LAMBDA figure_blocks1 :
                  latex_writer_blocks(w2, subtrees, index + 1, grp, revision,
                                      figure_blocks1)))))))

import_latex_writer(w, tree, revision) ==
    Then(make_group(w, revision, tree.reuse, "text/x-latex-writer"), LAMBDA w1 :
    Let(w1.ret, LAMBDA grp :
    Then(latex_writer_blocks(w1, tree.subtrees, 1, grp, revision, << >>),
         LAMBDA w2 :
    Return(w2, [group |-> grp, blocks |-> w2.ret]))))

(***************************************************************************)
(* import_textfile, import_figure                                          *)
(***************************************************************************)
import_textfile(w, tree, group_order, test_title) ==
    IF tree.dialect = "unparsable" THEN Raise(w, "ParseException")
    ELSE Then(make_revision(w, tree.authors, group_order, test_title),
              LAMBDA w1 :
         Let(w1.ret, LAMBDA revision :
             IF tree.dialect = "plain" THEN import_plain(w1, tree, revision)
             ELSE IF tree.dialect = "lw"
             THEN import_latex_writer(w1, tree, revision)
             ELSE Raise(w1, "KeyError")))

\* The name of the n-th figure file that follows a text file in the directory.
DiskName(n) == [declared |-> FALSE, block |-> n, key |-> "file"]

import_figure(w, filename, revision) ==
    Then(get_category(w, "figure", "figure_kind", "FigureKind"), LAMBDA w1 :
    Let(New(w1, [cls |-> "FigureTree"]), LAMBDA w2 :
    Let(New(w2, [cls |-> "Figure", revision |-> revision, kind |-> w1.ret,
                 tree |-> w2.ret, filename |-> filename]), LAMBDA w3 :
        Return(session_add(w3, w3.ret), w3.ret))))

(***************************************************************************)
(* bind_figures                                                            *)
(***************************************************************************)
\* block.group_bindings, in order of construction
GroupBindingsOf(h, block) ==
    {b \in DOMAIN h :
        \/ h[b].cls = "GroupQuestionBinding" /\ h[b].question = block
        \/ h[b].cls = "GroupIntroductionBinding" /\ h[b].introduction = block}

\* group.test_bindings, in order of construction
TestBindingsOf(h, grp) ==
    {b \in DOMAIN h : h[b].cls = "TestGroupBinding" /\ h[b].group = grp}

\* The body with the heuristic short of its last condition: every figure of
\* an answerfigure question becomes an answerfigure.
bind_pair_any_position(w, block, figure) ==
    Let(w.heap[block].figure_counter + 1, LAMBDA figure_counter :
    Let(IF w.heap[block].has_filenames
        THEN Len(w.heap[block].figure_filenames) ELSE 1, LAMBDA fname_len :
    Let([w EXCEPT !.heap[block].figure_counter = figure_counter], LAMBDA w1 :
    IF w.heap[block].has_filenames /\ ~(figure_counter < fname_len)
    THEN Raise(w1, "AssertionError")
    ELSE Let(IF w.heap[block].has_filenames
             THEN [w1 EXCEPT !.heap[figure].filename =
                       w.heap[block].figure_filenames[figure_counter + 1]]
             ELSE w1, LAMBDA w2 :
         IF w2.heap[block].cls = "Introduction"
         THEN Let(New(w2, [cls |-> "IntroductionFigureBinding",
                           block |-> block, figure |-> figure]), LAMBDA w3 :
                  session_add(w3, w3.ret))
         ELSE Then(IF /\ w2.heap[block].kind # None
                      /\ w2.heap[w2.heap[block].kind].name = "answerfigure"
                   THEN Let(get_category(w2, "answerfigure", "figure_kind",
                                         "FigureKind"), LAMBDA w3 :
                            IF w3.raised # "" THEN w3
                            ELSE [w3 EXCEPT !.heap[figure].kind = w3.ret])
                   ELSE w2, LAMBDA w4 :
              Let(New(w4, [cls |-> "QuestionFigureBinding",
                           block |-> block, figure |-> figure]), LAMBDA w5 :
                  session_add(w5, w5.ret)))))))

\* The body of the loop for a block and a figure that are both present.
bind_pair(w, block, figure) ==
    Let(w.heap[block].figure_counter + 1, LAMBDA figure_counter :
    Let(IF w.heap[block].has_filenames
        THEN Len(w.heap[block].figure_filenames) ELSE 1, LAMBDA fname_len :
    Let([w EXCEPT !.heap[block].figure_counter = figure_counter], LAMBDA w1 :
    IF w.heap[block].has_filenames /\ ~(figure_counter < fname_len)
    THEN Raise(w1, "AssertionError")
    ELSE Let(IF w.heap[block].has_filenames
             THEN [w1 EXCEPT !.heap[figure].filename =
                       w.heap[block].figure_filenames[figure_counter + 1]]
             ELSE w1, LAMBDA w2 :
         IF w2.heap[block].cls = "Introduction"
         THEN Let(New(w2, [cls |-> "IntroductionFigureBinding",
                           block |-> block, figure |-> figure]), LAMBDA w3 :
                  session_add(w3, w3.ret))
         ELSE Then(IF /\ w2.heap[block].kind # None
                      /\ w2.heap[w2.heap[block].kind].name = "answerfigure"
                      /\ figure_counter = fname_len - 1
                   THEN Let(get_category(w2, "answerfigure", "figure_kind",
                                         "FigureKind"), LAMBDA w3 :
                            IF w3.raised # "" THEN w3
                            ELSE [w3 EXCEPT !.heap[figure].kind = w3.ret])
                   ELSE w2, LAMBDA w4 :
              Let(New(w4, [cls |-> "QuestionFigureBinding",
                           block |-> block, figure |-> figure]), LAMBDA w5 :
                  session_add(w5, w5.ret)))))))

\* for block, figure in zip(blocks, figures): the loop stops with the shorter
\* list.
RECURSIVE bind_from_zip(_, _, _, _)
bind_from_zip(w, blks, figs, i) ==
    IF i > Len(blks) \/ i > Len(figs) THEN w
    ELSE Then(bind_pair(w, blks[i], figs[i]), LAMBDA w1 :
              bind_from_zip(w1, blks, figs, i + 1))

\* for block, figure in zip_longest(blocks, figures), from position i on
RECURSIVE bind_from(_, _, _, _)
bind_from(w, blks, figs, i) ==
    IF i > Max(Len(blks), Len(figs)) THEN w
    ELSE IF i > Len(blks)
    THEN Let(Log(w, [level |-> "warning", event |-> "dangling",
                     a |-> w.heap[figs[i]].filename, b |-> None]), LAMBDA w1 :
             bind_from(w1, blks, figs, i + 1))
    ELSE Let(blks[i], LAMBDA block :
         Let(GroupBindingsOf(w.heap, block), LAMBDA group_bindings :
         IF group_bindings = {} THEN Raise(w, "IndexError")
         ELSE Let(TestBindingsOf(w.heap, w.heap[First(group_bindings)].group),
                  LAMBDA test_bindings :
         IF test_bindings = {} THEN Raise(w, "IndexError")
         ELSE IF i > Len(figs)
         THEN Let(Log(w, [level |-> "warning", event |-> "unfulfilled",
                          a |-> w.heap[First(test_bindings)].order,
                          b |-> w.heap[First(group_bindings)].order]),
                  LAMBDA w1 : bind_from(w1, blks, figs, i + 1))
         ELSE Then(bind_pair(w, block, figs[i]), LAMBDA w1 :
                   bind_from(w1, blks, figs, i + 1)))))

\* History: the call, whether it raised and what it logged.
bind_figures(w, blks, figs) ==
    Let(bind_from(w, blks, figs, 1), LAMBDA w1 :
        [w1 EXCEPT !.binds = Append(@,
            [blocks |-> blks, figures |-> figs, raised |-> w1.raised,
             warnings |-> SubSeq(w1.log, Len(w.log) + 1, Len(w1.log))])])

(***************************************************************************)
(* The inputs the model draws.                                             *)
(***************************************************************************)
Titles == {"2020", "2021"}

NoReuse == [n |-> 0, title |-> "", order |-> 0]

Reuse2020 == [n |-> 2, title |-> "2020", order |-> 1]

NoPoints == [len |-> 0, first |-> 0, per |-> << >>]

SeqsOf(S, lo, hi) == UNION {[1..k -> S] : k \in lo..hi}

\* No declaration, a single number, or a total with the points per question
\* (the total being their sum, or off by one).
PointsDecls ==
    {NoPoints}
    \cup {[len |-> 1, first |-> p, per |-> << >>] : p \in 1..MaxPoint}
    \cup {[len |-> 2, first |-> sum(ps) + d, per |-> ps] :
            ps \in SeqsOf(1..MaxPoint, 1, MaxBlocks), d \in {0, 1}}

TextFile(authors, reuse, dialect, n, qc, points, images, subtrees) ==
    [authors |-> authors, reuse |-> reuse, dialect |-> dialect, blocks |-> n,
     questionCount |-> qc, points |-> points, images |-> images,
     subtrees |-> subtrees]

Subtree(keys) ==
    [keys |-> keys, type |-> "open", points |-> << >>, lines |-> 1]

TitleOnly == Subtree({})

Subtrees ==
    {TitleOnly, [TitleOnly EXCEPT !.lines = 2],
     Subtree({"intro"}), Subtree({"intro", "figure"}), Subtree({"figure"}),
     Subtree({"question"}),
     [Subtree({"question", "answerblock"}) EXCEPT !.points = <<MaxPoint>>],
     Subtree({"question", "answerblock", "figure"}),
     Subtree({"question", "answerfigure"}),
     Subtree({"question", "figure", "answerfigure"}),
     Subtree({"question", "drawbox"}), Subtree({"question", "type"}),
     Subtree({"question", "complete_text", "answerfigure"})}

PlainFiles ==
    {TextFile(<< >>, NoReuse, "plain", n, qc, points, images, << >>) :
        n \in 1..MaxBlocks,
        qc \in {<< >>} \cup {<<k>> : k \in 0..(MaxBlocks + 1)},
        points \in PointsDecls, images \in 0..MaxImages}

LatexWriterFiles ==
    {TextFile(<< >>, NoReuse, "lw", 0, << >>, NoPoints, 0, subtrees) :
        subtrees \in SeqsOf(Subtrees, 0, MaxSubtrees)}

\* The text files of SpecFile: every content, no authors, no reuse.
ContentFiles == PlainFiles \cup LatexWriterFiles

\* The text files of Spec: without and with authors and reuse, in either
\* dialect, and one without a content marker.
Files ==
    {TextFile(<< >>, NoReuse, "plain", 1, << >>, NoPoints, 1, << >>),
     TextFile(<<" ann ", "ann">>, Reuse2020, "lw", 0, << >>, NoPoints, 0,
              <<Subtree({"question", "answerfigure"})>>),
     TextFile(<< >>, NoReuse, "none", 0, << >>, NoPoints, 0, << >>)}

(***************************************************************************)
(* campbellsoup/api.py: the login and logout endpoints.  Each client has   *)
(* its own session, whose current user is an account or anonymous.         *)
(***************************************************************************)
Clients == {"c1", "c2"}

\* status codes of http.client
OK == 200
RESET_CONTENT == 205
BAD_REQUEST == 400
UNAUTHORIZED == 401
INTERNAL_SERVER_ERROR == 500

VALID_EMAIL == "bla@bla.com"
VALID_PASSWORD == "12345"

\* The Account rows: the account of the tests and a second one.
Accounts ==
    {[id |-> 1, email_address |-> VALID_EMAIL, password |-> VALID_PASSWORD,
      role |-> None, person |-> 1],
     [id |-> 2, email_address |-> "ann@bla.com", password |-> "67890",
      role |-> 1, person |-> 2]}

Emails == {VALID_EMAIL, "ann@bla.com", "bla" \o VALID_EMAIL}

Passwords == {VALID_PASSWORD, "67890", VALID_PASSWORD \o "oops"}

\* The body of a request.  kind is "notjson" (another content type),
\* "malformed" (JSON that does not parse), "false" or "zero" (the JSON
\* values false and 0), "other" (null, an array, a string, another number)
\* or "object"; fields are the members of an object among email, password.
NoBody == [kind |-> "notjson", fields |-> << >>]

Bodies ==
    {[kind |-> k, fields |-> << >>] :
        k \in {"notjson", "malformed", "false", "zero", "other"}}
    \cup {[kind |-> "object", fields |-> f] :
            f \in UNION {[D -> Emails \cup Passwords] :
                            D \in SUBSET {"email", "password"}}}

Response(code, body) == [status |-> code, body |-> body]

\* No response: before the first request, and None where a view returns a
\* response.
NoResponse == Response(0, << >>)

\* check_proper_json: ok says that `json` is not False, that is, that login
\* goes on; response is the second element of the pair.
check_proper_json(body) ==
    IF body.kind = "notjson"
    THEN [ok |-> FALSE,
          response |-> Response(BAD_REQUEST,
                                [error |-> "Request must be JSON encoded."])]
    ELSE IF body.kind = "malformed"
    THEN [ok |-> FALSE,
          response |-> Response(BAD_REQUEST,
                                [error |-> "JSON data are malformed."])]
    \* get_json() returns False or 0, which equals False; response is None
    ELSE IF body.kind \in {"false", "zero"}
    THEN [ok |-> FALSE, response |-> NoResponse]
    ELSE [ok |-> TRUE, response |-> NoResponse]

\* Account.query.filter_by(email_address=email).first(): the rows found.
AccountQuery(email) == {a \in Accounts : a.email_address = email}

\* account.verify_password(password)
verify_password(account, password) == account.password = password

\* to_dict(account, include=('id', 'email_address'), deep={role, person})
to_dict(account) ==
    [id |-> account.id, email_address |-> account.email_address,
     role |-> account.role, person |-> account.person]

\* What a view that returns None or raises makes of the request.
ServerError == Response(INTERNAL_SERVER_ERROR, << >>)

\* login that verifies no password.
login_unverified(user, body) ==
    IF body.kind # "object" \/ DOMAIN body.fields # {"email", "password"}
    THEN [user |-> user, response |-> Response(BAD_REQUEST, << >>)]
    ELSE IF AccountQuery(body.fields["email"]) = {}
    THEN [user |-> user, response |-> Response(UNAUTHORIZED, << >>)]
    ELSE LET account == CHOOSE a \in AccountQuery(body.fields["email"]) : TRUE
         IN  [user |-> account.id, response |-> Response(OK, to_dict(account))]

\* login: the current user of the session and the response, for the current
\* user `user` and the request body `body`.
login(user, body) ==
    LET checked == check_proper_json(body)
    IN  IF ~checked.ok
        THEN [user |-> user,
              response |-> IF checked.response = NoResponse THEN ServerError
                           ELSE checked.response]
        \* json['email'] on a value that is no object raises TypeError
        ELSE IF body.kind # "object"
        THEN [user |-> user, response |-> ServerError]
        ELSE IF "email" \notin DOMAIN body.fields
        THEN [user |-> user,
              response |-> Response(BAD_REQUEST, ("email" :> "Field missing."))]
        ELSE IF "password" \notin DOMAIN body.fields
        THEN [user |-> user,
              response |-> Response(BAD_REQUEST,
                                    ("password" :> "Field missing."))]
        ELSE LET found == AccountQuery(body.fields["email"])
             IN  IF found = {} \/ ~verify_password(CHOOSE a \in found : TRUE,
                                                  body.fields["password"])
                 THEN [user |-> user,
                       response |->
                           Response(UNAUTHORIZED,
                                    [error |-> "User does not exist or password is invalid."])]
                 ELSE [user |-> (CHOOSE a \in found : TRUE).id,
                       response |-> Response(OK, to_dict(CHOOSE a \in found : TRUE))]

\* POST /api/login from a client.
Login(c, body) ==
    /\ request' = [client |-> c, path |-> "/api/login", body |-> body]
    /\ \E r \in {login(current_user[c], body)} :
          /\ current_user' = [current_user EXCEPT ![c] = r.user]
          /\ response' = r.response
    /\ UNCHANGED import_vars

\* GET /api/logout from a client: login_required answers an anonymous
\* client with 401.
Logout(c) ==
    /\ request' = [client |-> c, path |-> "/api/logout", body |-> NoBody]
    /\ IF current_user[c] = None
       THEN /\ response' = Response(UNAUTHORIZED, << >>)
            /\ UNCHANGED current_user
       ELSE /\ response' = Response(RESET_CONTENT, << >>)
            /\ current_user' = [current_user EXCEPT ![c] = None]
    /\ UNCHANGED import_vars

(***************************************************************************)
(* import_test and import_groups.  One action per iteration of the loop    *)
(* over the files; the session outlives the invocations.                   *)
(***************************************************************************)
\* session.commit: the pending objects become rows.
session_commit(w) == store \cup Cascade(w.heap, w.staged)

\* session.rollback: the pending objects are dropped.
session_rollback(w) == store

Init ==
    /\ heap = << >>
    /\ staged = {}
    /\ store = {}
    /\ cache = EmptyCaches
    /\ log = << >>
    /\ pc = "idle"
    /\ test = None
    /\ order = 1
    /\ blocks = << >>
    /\ figures = << >>
    /\ group = None
    /\ runs = 0
    /\ outcome = "none"
    /\ added = {}
    /\ calls = {}
    /\ hist = << >>
    /\ binds = << >>
    /\ ntexts = 0
    /\ nfigures = 0
    /\ current_user = [c \in Clients |-> None]
    /\ request = [client |-> None, path |-> "", body |-> NoBody]
    /\ response = NoResponse

\* What the calls of a step leave behind, whatever the step does next.
Effects(w) ==
    /\ heap' = w.heap
    /\ cache' = w.cache
    /\ log' = w.log
    /\ added' = w.added
    /\ calls' = w.calls
    /\ binds' = w.binds

\* The step goes on with the next file.
Continue(w) ==
    /\ Effects(w)
    /\ staged' = w.staged
    /\ UNCHANGED <<store, pc, test, runs, outcome>>

\* import_test without its except clause: an exception ends the invocation
\* and the session keeps what is pending.
EndRun_without_rollback(w) ==
    /\ Effects(w)
    /\ staged' = IF w.raised = "" THEN {} ELSE w.staged
    /\ store' = IF w.raised = "" THEN session_commit(w) ELSE store
    /\ outcome' = IF w.raised = "" THEN "committed" ELSE "rolledback"
    /\ pc' = "idle"
    /\ UNCHANGED <<test, order, blocks, figures, group, runs>>

\* import_test, lines 77 to 80: the invocation ends, by session.commit() or,
\* when a step has raised, by session.rollback() and re-raising.
EndRun(w) ==
    /\ Effects(w)
    /\ staged' = {}
    /\ store' = IF w.raised = "" THEN session_commit(w) ELSE session_rollback(w)
    /\ outcome' = IF w.raised = "" THEN "committed" ELSE "rolledback"
    /\ pc' = "idle"
    /\ UNCHANGED <<test, order, blocks, figures, group, runs>>

\* import_test up to the loop of import_groups.
StartImport(title) ==
    /\ pc = "idle"
    /\ runs < MaxRuns
    /\ heap' = Append(heap, [cls |-> "Test", title |-> title])
    /\ test' = Len(heap) + 1
    /\ order' = 1
    /\ blocks' = << >>
    /\ figures' = << >>
    /\ group' = None
    /\ runs' = runs + 1
    /\ pc' = "importing"
    /\ outcome' = "none"
    /\ log' = << >>
    /\ added' = {}
    /\ calls' = {}
    /\ hist' = << >>
    /\ binds' = << >>
    /\ UNCHANGED <<staged, store, cache, ntexts, nfigures>>
    /\ UNCHANGED api_vars

\* The body without the bind_figures call for the group before.
import_group_without_bind(w, tree) ==
    Then(import_textfile(w, tree, order, heap[test].title), LAMBDA w2 :
    Let(w2.ret, LAMBDA imported :
    Let(New(w2, [cls |-> "TestGroupBinding", test |-> test,
                 group |-> imported.group, order |-> order]), LAMBDA w3 :
        Return(session_add(w3, w3.ret), imported))))

\* The body of the loop for a text file; ret is [group, blocks].
import_group(w, tree) ==
    Then(bind_figures(w, blocks, figures), LAMBDA w1 :
    Then(import_textfile(w1, tree, order, heap[test].title), LAMBDA w2 :
    Let(w2.ret, LAMBDA imported :
    Let(New(w2, [cls |-> "TestGroupBinding", test |-> test,
                 group |-> imported.group, order |-> order]), LAMBDA w3 :
        Return(session_add(w3, w3.ret), imported)))))

ImportText(tree) ==
    /\ pc = "importing"
    /\ ntexts < MaxTexts
    /\ ntexts' = ntexts + 1
    /\ UNCHANGED nfigures
    /\ UNCHANGED api_vars
    /\ \E w \in {import_group(World, tree)} :
          /\ hist' = Append(hist, [tree |-> tree, order |-> order,
                                   raised |-> w.raised,
                                   group |-> IF w.raised = "" THEN w.ret.group
                                             ELSE None,
                                   blocks |-> IF w.raised = ""
                                              THEN w.ret.blocks ELSE << >>])
          /\ IF w.raised = ""
             THEN /\ Continue(w)
                  /\ group' = w.ret.group
                  /\ blocks' = w.ret.blocks
                  /\ figures' = << >>
                  /\ order' = order + 1
             ELSE EndRun(w)

\* The body of the loop for any other file: `group` is the group of the last
\* text file and is not bound before the first.
ImportFigure ==
    /\ pc = "importing"
    /\ nfigures < MaxFigures
    /\ nfigures' = nfigures + 1
    /\ UNCHANGED ntexts
    /\ UNCHANGED api_vars
    /\ \E w \in {IF group = None THEN Raise(World, "UnboundLocalError")
                 ELSE import_figure(World, DiskName(Len(figures) + 1),
                                    heap[group].revision)} :
          /\ IF w.raised = ""
             THEN /\ Continue(w)
                  /\ figures' = Append(figures, w.ret)
                  /\ UNCHANGED <<order, blocks, group>>
             ELSE EndRun(w)
          /\ UNCHANGED hist

\* After the last file: the last bind_figures, session.add(test) and the end
\* of the invocation.
EndOfFiles ==
    /\ pc = "importing"
    /\ \E w \in {Then(bind_figures(World, blocks, figures),
                      LAMBDA w1 : session_add(w1, test))} : EndRun(w)
    /\ UNCHANGED <<hist, ntexts, nfigures>>
    /\ UNCHANGED api_vars

\* A new process: the module is loaded again, its caches are empty.
Restart ==
    /\ pc = "idle"
    /\ cache # EmptyCaches
    /\ cache' = EmptyCaches
    /\ UNCHANGED <<heap, staged, store, log, test, order, blocks, figures,
                   group, runs, outcome, added, calls, hist, binds, pc, ntexts,
                   nfigures>>
    /\ UNCHANGED api_vars

Next ==
    \/ \E title \in Titles : StartImport(title)
    \/ \E tree \in Files : ImportText(tree)
    \/ ImportFigure
    \/ EndOfFiles
    \/ Restart

Spec == Init /\ [][Next]_vars

\* One invocation on one text file of any content, followed by figures.
FirstImport == runs = 0 /\ StartImport("2020")

ImportContent == hist = << >> /\ \E tree \in ContentFiles : ImportText(tree)

NextFile ==
    \/ FirstImport
    \/ ImportContent
    \/ ImportFigure
    \/ EndOfFiles

SpecFile == Init /\ [][NextFile]_vars

\* The api: requests of the clients, in any order.
NextApi ==
    \/ \E c \in Clients, body \in Bodies : Login(c, body)
    \/ \E c \in Clients : Logout(c)

SpecApi == Init /\ [][NextApi]_vars

(***************************************************************************)
(* Properties.                                                             *)
(***************************************************************************)
Committed == pc = "idle" /\ outcome = "committed"

RolledBack == pc = "idle" /\ outcome = "rolledback"

\* The step that ends an invocation.
EndStep == pc = "importing" /\ pc' = "idle"

\* The step that starts one.
StartStep == pc = "idle" /\ pc' = "importing"

Objects(cls) == {i \in DOMAIN heap : heap[i].cls = cls}

\* The objects constructed by the current (or last) invocation.
OfThisRun(cls) == {i \in Objects(cls) : i > test}

\* The orders of the bindings S are 1..n, n the number of the bindings.
Dense(S) == {heap[b].order : b \in S} = 1..Cardinality(S)

BlockBindingsOf(g) ==
    {b \in Objects("GroupQuestionBinding") \cup
           Objects("GroupIntroductionBinding") : heap[b].group = g}

BlockBindingsOfBlock(block) ==
    {b \in Objects("GroupQuestionBinding") : heap[b].question = block}
    \cup {b \in Objects("GroupIntroductionBinding") :
             heap[b].introduction = block}

\* C1: after an import has committed, the orders of the Test-Group bindings
\* of its Test are exactly 1..n, and so are the orders of the Group-Question
\* and Group-Introduction bindings of each of its Groups.
C1_OrdersAreDense ==
    Committed =>
        /\ Dense({b \in Objects("TestGroupBinding") : heap[b].test = test})
        /\ \A g \in OfThisRun("Group") : Dense(BlockBindingsOf(g))

\* C2: import_test is one transaction.  The store changes only in the step
\* that ends an invocation without an exception; that step commits
\* everything the invocation has staged, the Test included, and nothing of
\* another invocation.  A step that raises ends the invocation, leaves the
\* store as it was and leaves nothing pending in the session.
C2_OneTransaction ==
    [][/\ store' # store => EndStep /\ outcome' = "committed"
       /\ EndStep /\ outcome' = "committed" =>
             /\ store \cup added' \subseteq store'
             /\ test \in store'
             /\ store' \ store \subseteq Cascade(heap', added')
             /\ staged' = {}
       /\ EndStep /\ outcome' = "rolledback" =>
             /\ store' = store
             /\ added' \cap store' = {}
             /\ staged' = {}
       /\ Len(hist') > Len(hist) /\ hist'[Len(hist')].raised # "" =>
             EndStep /\ outcome' = "rolledback"
       /\ EndStep => outcome' \in {"committed", "rolledback"}]_vars

\* C2, witness: an invocation that had staged entities was rolled back over
\* a store that holds the rows of an earlier invocation, and none of them
\* is a row.
C2_RolledBackOverRows ==
    RolledBack /\ added # {} /\ store # {} /\ added \cap store = {}

CategoryModels == {"Format", "QuestionKind", "FigureKind", "QuestionStatus"}

\* C3: within one invocation two get_category calls with the same name and
\* cache return the same instance, every returned instance is in the cache
\* and in the session, and after the commit the store holds at most one
\* row per name for each category model.
C3_GetCategory ==
    /\ \A c1, c2 \in calls :
          c1.cache = c2.cache /\ c1.name = c2.name => c1.inst = c2.inst
    /\ \A c \in calls : c.cached /\ c.insession
    /\ Committed =>
          \A i, j \in store :
              /\ heap[i].cls \in CategoryModels
              /\ heap[j].cls = heap[i].cls
              /\ heap[j].name = heap[i].name
              => i = j

FigureBindingsOf(f) ==
    {b \in Objects("QuestionFigureBinding") \cup
           Objects("IntroductionFigureBinding") : heap[b].figure = f}

Min(a, b) == IF a < b THEN a ELSE b

\* The order of a block as the warnings name it: the order of its group in
\* the test and its own order in the group.
BlockOrder(block) ==
    LET gb == CHOOSE b \in BlockBindingsOfBlock(block) : TRUE
        tb == CHOOSE b \in Objects("TestGroupBinding") :
                  heap[b].group = heap[gb].group
    IN  <<heap[tb].order, heap[gb].order>>

\* C4: every call of bind_figures pairs its blocks and its figures by
\* position.  The i-th figure has exactly one binding, to the i-th block,
\* for i up to the length of the shorter list; a block beyond the figures
\* is reported as unfulfilled, by its order, and no binding is made for its
\* position; a figure beyond the blocks is reported as dangling, by its
\* file name, and has no binding.
C4_PositionalPairing ==
    \A k \in DOMAIN binds :
        LET e == binds[k]
            n == Min(Len(e.blocks), Len(e.figures))
        IN  /\ e.raised = ""
            /\ Len(e.warnings) = Max(Len(e.blocks), Len(e.figures)) - n
            /\ \A i \in 1..n :
                  \E b \in FigureBindingsOf(e.figures[i]) :
                      /\ FigureBindingsOf(e.figures[i]) = {b}
                      /\ heap[b].block = e.blocks[i]
            /\ \A i \in (n + 1)..Len(e.figures) :
                  /\ FigureBindingsOf(e.figures[i]) = {}
                  /\ e.warnings[i - n] =
                        [level |-> "warning", event |-> "dangling",
                         a |-> heap[e.figures[i]].filename, b |-> None]
            /\ \A i \in (n + 1)..Len(e.blocks) :
                  e.warnings[i - n] =
                      [level |-> "warning", event |-> "unfulfilled",
                       a |-> BlockOrder(e.blocks[i])[1],
                       b |-> BlockOrder(e.blocks[i])[2]]
            /\ \A x \in {e.blocks[i] : i \in 1..Len(e.blocks)} :
                  Cardinality({b \in UNION {FigureBindingsOf(e.figures[i]) :
                                               i \in 1..Len(e.figures)} :
                                  heap[b].block = x})
                  = Cardinality({i \in 1..n : e.blocks[i] = x})

\* C4, witness: a call with two blocks and one figure has bound the pair and
\* reported the second block, and the invocation has committed.
C4_PairAndUnfulfilled ==
    /\ Committed
    /\ \E k \in DOMAIN binds :
          /\ Len(binds[k].blocks) = 2
          /\ Len(binds[k].figures) = 1
          /\ binds[k].blocks[1] # binds[k].blocks[2]
          /\ FigureBindingsOf(binds[k].figures[1]) # {}
          /\ Len(binds[k].warnings) = 1

\* The blocks of class cls that the text file of hist entry e has produced.
BlocksOf(e, cls) ==
    {i \in OfThisRun(cls) : heap[heap[i].revision].commit_msg.group = e.order}

Logged(level, event) ==
    \E i \in DOMAIN log : log[i].level = level /\ log[i].event = event

\* The blocks S are the blocks at the positions lo..hi of the file, each
\* bound to its group with its position as order.
AreBlocks(S, lo, hi) ==
    /\ Cardinality(S) = Cardinality(lo..hi)
    /\ {heap[i].text : i \in S} = lo..hi
    /\ \A i \in S : \E b \in BlockBindingsOfBlock(i) :
          heap[b].order = heap[i].text

\* The split of the n blocks of the plain file of hist entry e, for a
\* question count k, once make_group has made the group of the file.
PlainSplit(e, k) ==
    LET n == e.tree.blocks
    IN  BlocksOf(e, "Group") = {} \/
        /\ k <= n =>
              /\ AreBlocks(BlocksOf(e, "Introduction"), 1, n - k)
              /\ AreBlocks(BlocksOf(e, "Question"), n - k + 1, n)
        /\ k > n =>
              /\ Logged("error", "questions claimed")
              /\ BlocksOf(e, "Introduction") = {}
              /\ AreBlocks(BlocksOf(e, "Question"), 1, n)
              /\ e.tree.points.len = 0 => e.raised = ""

\* C5, as claimed: with n blocks and a declared question count k (n when
\* none is declared), the first n - k blocks become Introductions and the
\* last k Questions if k <= n; if k > n an error is logged, the import
\* continues and all n blocks become Questions.
C5_DeclaredCountSplits ==
    \A x \in DOMAIN hist :
        hist[x].tree.dialect = "plain" =>
            PlainSplit(hist[x], IF hist[x].tree.questionCount = << >>
                                THEN hist[x].tree.blocks
                                ELSE hist[x].tree.questionCount[1])

\* C5, amended: the same split, where a declared question count of 0 counts
\* as n, as an absent one does.
C5_NonzeroCountSplits ==
    \A x \in DOMAIN hist :
        hist[x].tree.dialect = "plain" =>
            PlainSplit(hist[x], IF hist[x].tree.questionCount \in {<< >>, <<0>>}
                                THEN hist[x].tree.blocks
                                ELSE hist[x].tree.questionCount[1])

\* C5, witness: a plain file of two blocks that declares one question has
\* been imported, and an Introduction and a Question exist.
C5_OneOfTwo ==
    \E x \in DOMAIN hist :
        /\ hist[x].tree.dialect = "plain"
        /\ hist[x].tree.blocks = 2
        /\ hist[x].tree.questionCount = <<1>>
        /\ hist[x].raised = ""
        /\ BlocksOf(hist[x], "Introduction") # {}
        /\ BlocksOf(hist[x], "Question") # {}

\* The question bindings of the group of hist entry e, in order.
QuestionBinding(e, i) ==
    LET S == {b \in OfThisRun("GroupQuestionBinding") :
                 heap[b].question \in BlocksOf(e, "Question")}
    IN  CHOOSE b \in S :
            Cardinality({c \in S : heap[c].order < heap[b].order}) = i - 1

\* C6: for a points declaration (total, [p1..pm]) of a plain file the
\* import is not aborted, the i-th question binding gets the weight p_i, a
\* warning is logged when the sum of the p_i differs from the total and an
\* error is logged when m differs from the number of question bindings.
C6_PointsPerQuestion ==
    \A x \in DOMAIN hist :
        LET e == hist[x]
            points == e.tree.points
            count == Cardinality(BlocksOf(e, "Question"))
        IN  e.tree.dialect = "plain" /\ points.len = 2 =>
                /\ e.raised = ""
                /\ \A i \in 1..Min(Len(points.per), count) :
                      heap[QuestionBinding(e, i)].weight = points.per[i]
                /\ sum(points.per) # points.first =>
                      Logged("warning", "points sum")
                /\ Len(points.per) # count =>
                      Logged("error", "points mismatch")

\* The groups a reuse declaration names, in the session as a state holds it:
\* bound with the order to a test with the title.
Named(reuse) ==
    LET session == store \cup Cascade(heap, staged)
    IN  {g \in Objects("Group") \cap session :
            \E b \in Objects("TestGroupBinding") \cap session :
                /\ heap[b].group = g
                /\ heap[b].order = reuse.order
                /\ heap[heap[b].test].title = reuse.title
                /\ heap[b].test \in session}

\* C7: the import of a text file with a content marker makes its group as
\* the reuse declaration says.  If exactly one group is bound with the
\* declared order to a test with the declared title, the new group has the
\* network of that group and a GroupHistory from that group to the new one
\* is staged; if none or several are, a lookup error is raised and the
\* invocation is rolled back; without a declaration the group has a new
\* network and no GroupHistory.
C7_MakeGroup ==
    [][Len(hist') > Len(hist) =>
        LET e == hist'[Len(hist')]
            reuse == e.tree.reuse
            histories ==
                {h \in DOMAIN heap' : /\ heap'[h].cls = "GroupHistory"
                                      /\ heap'[h].child = e.group}
        IN  e.tree.dialect \in {"plain", "lw"} =>
            /\ reuse.n = 2 /\ Cardinality(Named(reuse)) = 1 =>
                  /\ e.raised = ""
                  /\ \E parent \in Named(reuse) :
                        /\ heap'[e.group].network = heap[parent].network
                        /\ \E h \in histories :
                              /\ histories = {h}
                              /\ heap'[h].parent = parent
                              /\ h \in staged'
            /\ reuse.n = 2 /\ Cardinality(Named(reuse)) = 0 =>
                  /\ e.raised = "NoResultFound"
                  /\ EndStep /\ outcome' = "rolledback"
            /\ reuse.n = 2 /\ Cardinality(Named(reuse)) > 1 =>
                  /\ e.raised = "MultipleResultsFound"
                  /\ EndStep /\ outcome' = "rolledback"
            /\ reuse.n = 0 =>
                  /\ e.raised = ""
                  /\ heap'[e.group].network > Len(heap)
                  /\ heap'[heap'[e.group].network].cls = "GroupNetwork"
                  /\ histories = {}]_vars

\* C7, witness: a group that reuses the group of an earlier, committed
\* invocation has been made, and its GroupHistory is staged.
C7_ReusedCommitted ==
    \E h \in Objects("GroupHistory") \cap staged :
        /\ heap[h].parent \in store
        /\ heap[heap[h].child].network = heap[heap[h].parent].network

\* The revisions that the invocation has made for files without authors.
UnattributedRevisions ==
    {r \in OfThisRun("Revision") :
        hist[heap[r].commit_msg.group].tree.authors = << >>}

\* C8: every text file without authors that has been parsed has a Revision
\* whose author is the Person with the short name 'unattributed'; these
\* Revisions have the same Person, and the invocation has constructed at
\* most one Person of that name.
C8_OneUnattributed ==
    /\ \A x \in DOMAIN hist :
          hist[x].tree.authors = << >> /\ hist[x].tree.dialect # "unparsable"
          => \E r \in UnattributedRevisions : heap[r].commit_msg.group = x
    /\ \A r \in UnattributedRevisions :
          /\ heap[heap[r].author].cls = "Person"
          /\ heap[heap[r].author].short_name = UNKNOWN_AUTHOR_NAME
    /\ \A r1, r2 \in UnattributedRevisions : heap[r1].author = heap[r2].author
    /\ Cardinality({p \in OfThisRun("Person") :
                       heap[p].short_name = UNKNOWN_AUTHOR_NAME}) <= 1

\* C8, witness: an invocation has committed two text files without authors.
C8_TwoUnattributed ==
    /\ Committed
    /\ Cardinality(UnattributedRevisions) = 2

\* C9: when an import has committed, every Question among the rows has a
\* kind and a status.
C9_KindAndStatus ==
    Committed =>
        \A q \in Objects("Question") \cap store :
            heap[q].kind # None /\ heap[q].status # None

\* C10: at the start of every invocation of import_test each of the five
\* caches is empty: it holds no entry of an earlier invocation.
C10_CachesStartEmpty == [][StartStep => cache = EmptyCaches]_vars

\* The account that the body of a login request names and whose password
\* it carries, if any.
Authenticated(body) ==
    {a \in Accounts :
        /\ body.kind = "object"
        /\ DOMAIN body.fields = {"email", "password"}
        /\ a.email_address = body.fields["email"]
        /\ a.password = body.fields["password"]}

\* C11: a POST /api/login answers 200, with id, email_address, role and
\* person of the account, and makes the account the current user of the
\* client's session exactly when the body is a JSON object with email and
\* password, an account has that email and the password is its password.
\* An object without email or without password is answered 400 naming the
\* missing field; an unknown email or a wrong password 401.  Whenever the
\* answer is not 200 the current user of the session is who it was, so an
\* anonymous client stays anonymous; the sessions of other clients are
\* never touched.
C11_Login ==
    [][request'.path = "/api/login" /\ UNCHANGED import_vars =>
        LET c == request'.client
            body == request'.body
        IN  /\ \A a \in Authenticated(body) :
                  /\ response'.status = OK
                  /\ response'.body =
                        [id |-> a.id, email_address |-> a.email_address,
                         role |-> a.role, person |-> a.person]
                  /\ current_user'[c] = a.id
            /\ response'.status = OK => Authenticated(body) # {}
            /\ body.kind = "object" /\ "email" \notin DOMAIN body.fields =>
                  response' = Response(BAD_REQUEST,
                                       ("email" :> "Field missing."))
            /\ body.kind = "object" /\ DOMAIN body.fields = {"email"} =>
                  response' = Response(BAD_REQUEST,
                                       ("password" :> "Field missing."))
            /\ /\ body.kind = "object"
               /\ DOMAIN body.fields = {"email", "password"}
               /\ Authenticated(body) = {}
               => response'.status = UNAUTHORIZED
            /\ response'.status # OK =>
                  /\ current_user'[c] = current_user[c]
                  /\ current_user[c] = None => current_user'[c] = None
            /\ \A d \in Clients \ {c} : current_user'[d] = current_user[d]]_vars

\* C11, witness: a client has logged in with the email and the password of
\* the first account, and the other client is anonymous.
C11_LoggedIn ==
    /\ request.path = "/api/login"
    /\ response.status = OK
    /\ current_user[request.client] = 1
    /\ \E d \in Clients : current_user[d] = None

\* The figures imported for a group, in the order of their import: a
\* figure has the revision of the group of the last text file before it.
RECURSIVE Ascending(_)
Ascending(S) ==
    IF S = {} THEN << >> ELSE <<First(S)>> \o Ascending(S \ {First(S)})

FiguresOf(g) ==
    Ascending({f \in OfThisRun("Figure") : heap[f].revision = heap[g].revision})

GroupOfBlock(block) ==
    heap[CHOOSE b \in BlockBindingsOfBlock(block) : TRUE].group

\* C12: bind_figures runs once for every imported group, when the next text
\* file is reached or the files have ended, never earlier: beyond a first
\* call without blocks and figures, the calls are one per text file, in
\* order, and each has received the blocks that the import of that text
\* file returned, all of them blocks of its group, and all figures imported
\* for that group; a group without a call is the last one of an invocation
\* that has not ended with a commit.  No figure is bound to a block of
\* another group than the one it was imported for.
C12_BinderPerGroup ==
    /\ Len(binds) \in {Len(hist), Len(hist) + 1}
    /\ Committed => Len(binds) = Len(hist) + 1
    /\ binds # << >> => binds[1].blocks = << >> /\ binds[1].figures = << >>
    /\ \A k \in DOMAIN hist :
          k + 1 \in DOMAIN binds =>
              /\ hist[k].raised = ""
              /\ binds[k + 1].blocks = hist[k].blocks
              /\ binds[k + 1].figures = FiguresOf(hist[k].group)
              /\ \A i \in DOMAIN hist[k].blocks :
                    GroupOfBlock(hist[k].blocks[i]) = hist[k].group
    /\ \A k \in DOMAIN hist :
          hist[k].raised = "" /\ k + 1 \notin DOMAIN binds =>
              k = Len(hist) /\ ~Committed
    /\ \A f \in OfThisRun("Figure") : \A b \in FigureBindingsOf(f) :
          heap[GroupOfBlock(heap[b].block)].revision = heap[f].revision

\* C12, witness: an invocation of two text files has committed; the first
\* group had a block that awaited a figure and a figure, and they were bound
\* before the second text file was imported.
C12_BoundBeforeNextText ==
    /\ Committed
    /\ Len(hist) = 2
    /\ Len(binds) = 3
    /\ binds[2].blocks # << >>
    /\ binds[2].figures # << >>
    /\ FigureBindingsOf(binds[2].figures[1]) # {}

\* The file names that the subtree of a LaTeX-writer block declares, as the
\* parse tree of its text file has them.
DeclaredBy(block) ==
    LET tree == hist[heap[heap[block].revision].commit_msg.group].tree
        keys == tree.subtrees[heap[block].text].keys
    IN  (IF "figure" \in keys
         THEN <<[declared |-> TRUE, block |-> heap[block].text,
                 key |-> "figure"]>> ELSE << >>)
        \o (IF "answerfigure" \in keys
            THEN <<[declared |-> TRUE, block |-> heap[block].text,
                    key |-> "answerfigure"]>> ELSE << >>)

IsLatexWriterBlock(block) ==
    hist[heap[heap[block].revision].commit_msg.group].tree.dialect = "lw"

KindName(obj) == IF heap[obj].kind = None THEN "" ELSE heap[heap[obj].kind].name

\* C13: no call of bind_figures fails, and for every pair of a block and a
\* figure that a call has bound: the figure of a block with declared file
\* names has the declared name at the position that counts the figures
\* bound to the block before it, which is a position of the list, and the
\* figure of another block keeps its name; the kind of the figure is
\* 'answerfigure' exactly when the block is a Question of kind
\* 'answerfigure' and the figure is the last of its declared ones, and
\* 'figure' otherwise.
C13_RenameAndKind ==
    \A k \in DOMAIN binds :
        LET e == binds[k]
        IN  /\ e.raised = ""
            /\ \A i \in 1..Min(Len(e.blocks), Len(e.figures)) :
                  LET block == e.blocks[i]
                      figure == e.figures[i]
                      before == Cardinality({j \in 1..(i - 1) :
                                                e.blocks[j] = block})
                  IN  /\ IsLatexWriterBlock(block) =>
                            /\ before < Len(DeclaredBy(block))
                            /\ heap[figure].filename =
                                   DeclaredBy(block)[before + 1]
                      /\ ~IsLatexWriterBlock(block) =>
                            heap[figure].filename.declared = FALSE
                      /\ KindName(figure) =
                            IF /\ heap[block].cls = "Question"
                               /\ KindName(block) = "answerfigure"
                               /\ IsLatexWriterBlock(block)
                               /\ before + 1 = Len(DeclaredBy(block))
                            THEN "answerfigure" ELSE "figure"

\* C13, witness: two figures were bound to a question of kind answerfigure
\* that declares a figure and an answerfigure; the second has become an
\* answerfigure, the first has not.
C13_SecondIsAnswerFigure ==
    \E k \in DOMAIN binds :
        /\ Len(binds[k].figures) = 2
        /\ Len(binds[k].blocks) >= 2
        /\ binds[k].blocks[1] = binds[k].blocks[2]
        /\ KindName(binds[k].blocks[1]) = "answerfigure"
        /\ KindName(binds[k].figures[1]) = "figure"
        /\ heap[binds[k].figures[1]].filename.key = "figure"
        /\ KindName(binds[k].figures[2]) = "answerfigure"
        /\ heap[binds[k].figures[2]].filename.key = "answerfigure"

====
